---- MODULE Spec2Model ----
(***************************************************************************)
(* Verification model of devicemapper-rs: device.rs (Device and its        *)
(* dev_t / kdev_t conversions) and loopbacked.rs (the loop-backed test      *)
(* harness).                                                                *)
(*                                                                          *)
(* Unsigned machine words are kept at their width as functions from nibble  *)
(* position (0 = least significant hex digit) to 0..15: a u32 has 8         *)
(* nibbles, a u64 has 16.  Every shift and mask of device.rs is a multiple  *)
(* of 4 bits, so the words are computed exactly, with truncation at the     *)
(* word's width.                                                            *)
(***************************************************************************)
EXTENDS Integers, Sequences, FiniteSets, TLC

----------------------------------------------------------------------------
(* Bounds of the model *)

\* most nibbles of an input word that differ from zero
MaxNonZero == 2
\* largest count passed to test_with_spec
MaxCount == 2
\* loop devices in the pool of the operating system
NumLoop == 3
\* LoopTestDev values a direct client of the API constructs
MaxDevs == 2
\* largest offset and length, in sectors, of a call of wipe_sectors
MaxSectors == 3

----------------------------------------------------------------------------
(* Words *)

W32 == 8
W64 == 16

Nibble == 0..15

Bit(x, k) == (x \div (2 ^ k)) % 2

NibAnd(x, y) == Bit(x, 0) * Bit(y, 0) + 2 * Bit(x, 1) * Bit(y, 1)
                + 4 * Bit(x, 2) * Bit(y, 2) + 8 * Bit(x, 3) * Bit(y, 3)

NibOr(x, y) == x + y - NibAnd(x, y)

NibNot(x) == 15 - x

\* a & b, a | b, !a  on words of w nibbles
And(a, b) == [i \in DOMAIN a |-> NibAnd(a[i], b[i])]

Or(a, b) == [i \in DOMAIN a |-> NibOr(a[i], b[i])]

Not(a) == [i \in DOMAIN a |-> NibNot(a[i])]

\* a >> bits and a << bits (bits a multiple of 4), truncated to a's width
Shr(a, bits) == [i \in DOMAIN a |->
                   IF (i + bits \div 4) \in DOMAIN a THEN a[i + bits \div 4] ELSE 0]

Shl(a, bits) == [i \in DOMAIN a |->
                   IF (i - bits \div 4) \in DOMAIN a THEN a[i - bits \div 4] ELSE 0]

\* a > b, unsigned
Gt(a, b) == \E i \in DOMAIN a :
               /\ a[i] > b[i]
               /\ \A j \in DOMAIN a : j > i => a[j] = b[j]

\* u32 as u64 and u64 as u32
Widen(a) == [i \in 0..(W64 - 1) |-> IF i < W32 THEN a[i] ELSE 0]

Narrow(a) == [i \in 0..(W32 - 1) |-> a[i]]

\* the literal whose hex digits are ds, most significant first, as a word of w nibbles
Hex(w, ds) == [i \in 0..(w - 1) |-> IF i < Len(ds) THEN ds[Len(ds) - i] ELSE 0]

Zero(w) == [i \in 0..(w - 1) |-> 0]

----------------------------------------------------------------------------
(* device.rs *)

\* struct Device { major: u32, minor: u32 }
Device(ma, mi) == [major |-> ma, minor |-> mi]

NoDevice == [major |-> <<>>, minor |-> <<>>]

\* Option<u32>
Some(v) == [some |-> TRUE, val |-> v]

None == [some |-> FALSE, val |-> <<>>]

\* libc::major, libc::minor, libc::makedev on the glibc dev_t encoding
\* MMMM Mmmm mmmM MMmm (one letter a hex digit, most significant first)
\* major and minor as in a 32-bit dev_t: the low 12 and the low 8 bits only
major_low12(dev) == Narrow(Shr(And(dev, Hex(W64, <<15, 15, 15, 0, 0>>)), 8))

minor_low8(dev) == Narrow(And(dev, Hex(W64, <<15, 15>>)))

major(dev) ==
    Narrow(Or(Shr(And(dev, Hex(W64, <<15, 15, 15, 0, 0>>)), 8),
              Shr(And(dev, Hex(W64, <<15, 15, 15, 15, 15, 0, 0, 0, 0, 0, 0, 0, 0, 0, 0, 0>>)), 32)))

minor(dev) ==
    Narrow(Or(And(dev, Hex(W64, <<15, 15>>)),
              Shr(And(dev, Hex(W64, <<15, 15, 15, 15, 15, 15, 0, 0, 0, 0, 0>>)), 12)))

\* makedev with the high part of minor shifted by 8 and not by 12
makedev_minor8(ma, mi) ==
    Or(Or(Shl(And(Widen(ma), Hex(W64, <<15, 15, 15>>)), 8),
          Shl(And(Widen(ma), Hex(W64, <<15, 15, 15, 15, 15, 0, 0, 0>>)), 32)),
       Or(And(Widen(mi), Hex(W64, <<15, 15>>)),
          Shl(And(Widen(mi), Hex(W64, <<15, 15, 15, 15, 15, 15, 0, 0>>)), 8)))

makedev(ma, mi) ==
    Or(Or(Shl(And(Widen(ma), Hex(W64, <<15, 15, 15>>)), 8),
          Shl(And(Widen(ma), Hex(W64, <<15, 15, 15, 15, 15, 0, 0, 0>>)), 32)),
       Or(And(Widen(mi), Hex(W64, <<15, 15>>)),
          Shl(And(Widen(mi), Hex(W64, <<15, 15, 15, 15, 15, 15, 0, 0>>)), 12)))

\* impl From<dev_t> for Device
DeviceFromDevT(val) == Device(major(val), minor(val))

\* impl From<Device> for dev_t
DevTFromDevice(dev) == makedev(dev.major, dev.minor)

\* from_kdev_t with the mask 0xff00 for 0xf_ff00 on the high part of minor
from_kdev_t_ff00(val) ==
    Device(Shr(And(val, Hex(W32, <<15, 15, 15, 0, 0>>)), 8),
           Or(And(val, Hex(W32, <<15, 15>>)),
              And(Shr(val, 12), Hex(W32, <<15, 15, 0, 0>>))))

\* from_kdev_t with the mask 0xff00 for 0xf_ff00 on major
from_kdev_t_major8(val) ==
    Device(Shr(And(val, Hex(W32, <<15, 15, 0, 0>>)), 8),
           Or(And(val, Hex(W32, <<15, 15>>)),
              And(Shr(val, 12), Hex(W32, <<15, 15, 15, 0, 0>>))))

\* Device::from_kdev_t
from_kdev_t(val) ==
    Device(Shr(And(val, Hex(W32, <<15, 15, 15, 0, 0>>)), 8),
           Or(And(val, Hex(W32, <<15, 15>>)),
              And(Shr(val, 12), Hex(W32, <<15, 15, 15, 0, 0>>))))

\* a >= b, unsigned
Ge(a, b) == a = b \/ Gt(a, b)

\* to_kdev_t with >= for > in the test of major
to_kdev_t_ge(dev) ==
    IF Ge(dev.major, Hex(W32, <<15, 15, 15>>)) \/ Gt(dev.minor, Hex(W32, <<15, 15, 15, 15, 15>>))
    THEN None
    ELSE Some(Or(Or(And(dev.minor, Hex(W32, <<15, 15>>)), Shl(dev.major, 8)),
                 Shl(And(dev.minor, Not(Hex(W32, <<15, 15>>))), 12)))

\* to_kdev_t with the high part of minor shifted by 8 and not by 12
to_kdev_t_shl8(dev) ==
    IF Gt(dev.major, Hex(W32, <<15, 15, 15>>)) \/ Gt(dev.minor, Hex(W32, <<15, 15, 15, 15, 15>>))
    THEN None
    ELSE Some(Or(Or(And(dev.minor, Hex(W32, <<15, 15>>)), Shl(dev.major, 8)),
                 Shl(And(dev.minor, Not(Hex(W32, <<15, 15>>))), 8)))

\* Device::to_kdev_t
to_kdev_t(dev) ==
    IF Gt(dev.major, Hex(W32, <<15, 15, 15>>)) \/ Gt(dev.minor, Hex(W32, <<15, 15, 15, 15, 15>>))
    THEN None
    ELSE Some(Or(Or(And(dev.minor, Hex(W32, <<15, 15>>)), Shl(dev.major, 8)),
                 Shl(And(dev.minor, Not(Hex(W32, <<15, 15>>))), 12)))

\* let test_devt_1: dev_t = 0xabcdef1234567890
test_devt_1 == Hex(W64, <<10, 11, 12, 13, 14, 15, 1, 2, 3, 4, 5, 6, 7, 8, 9, 0>>)

\* let test_devt_1: u32 = 0x12345678
test_kdevt_1 == Hex(W32, <<1, 2, 3, 4, 5, 6, 7, 8>>)

----------------------------------------------------------------------------
(* Inputs of the conversions *)

NibSamples == {1, 10, 15}

RECURSIVE Inputs(_, _)
\* the words of w nibbles with at most k nibbles set, each to a sample
Inputs(w, k) ==
    IF k = 0 THEN {Zero(w)}
    ELSE LET prev == Inputs(w, k - 1)
         IN  prev \cup {[s EXCEPT ![i] = n] : s \in prev, i \in 0..(w - 1), n \in NibSamples}

\* the largest major and minor a kdev_t holds, and the values next to them
KdevLimits ==
    { Device(ma, mi) :
        ma \in {Hex(W32, <<15, 15, 15>>), Hex(W32, <<1, 0, 0, 0>>), Hex(W32, <<15, 15, 14>>)},
        mi \in {Hex(W32, <<15, 15, 15, 15, 15>>), Hex(W32, <<1, 0, 0, 0, 0, 0>>),
                Hex(W32, <<15, 15, 15, 15, 14>>)} }

DevTInputs == Inputs(W64, MaxNonZero) \cup {test_devt_1}

KdevTInputs == Inputs(W32, MaxNonZero) \cup {test_kdevt_1}

DeviceInputs ==
    {Device(Narrow(Shr(v, 32)), Narrow(v)) : v \in Inputs(W64, MaxNonZero)} \cup KdevLimits

\* state of the programs of loopbacked.rs
VARIABLES
    mode,           \* the program run: "harness", "api", "wipe" or "devno"
    pc,             \* position of test_with_spec
    count,          \* argument of test_with_spec
    index,          \* loop index of get_devices
    tmpdir,         \* "none", "exists", "removed"
    files,          \* size in bytes of each backing file, NoFile if there is none
    loops,          \* the loop devices of the operating system
    wiped,          \* per loop device: the bytes zeroed while it is attached
    loop_devices,   \* Vec<LoopTestDev> of get_devices and test_with_spec
    device_paths,   \* the paths test_with_spec hands to the test
    panicking,      \* a panic is unwinding the stack
    tests,          \* invocations of the test body
    testArg,        \* the paths the test body was given
    log,            \* the operations on the operating system, in order
    ltd,            \* the LoopTestDev values of a direct client of the API
    wcall,          \* a call of wipe_sectors: its arguments and its result
    dn              \* a call of devnode_to_devno: the node at the path and the result

hvars == <<mode, pc, count, index, tmpdir, files, loops, wiped, loop_devices,
           device_paths, panicking, tests, testArg, log, ltd, wcall, dn>>


\* state of a conversion of device.rs
VARIABLES
    dkind,      \* what the input is: "dev_t", "kdev_t" or "Device"
    dval,       \* the input dev_t or kdev_t
    ddev,       \* the Device: decoded from dval, or the input
    dout,       \* the Device encoded: [kind, res], res an Option for kdev_t
    dback,      \* the Device decoded from dout
    dpc         \* "input", "decoded", "encoded", "done"

dvars == <<dkind, dval, ddev, dout, dback, dpc>>

vars == <<hvars, dvars>>

NoOut == [kind |-> "none", res |-> None]

DevInit ==
    /\ dkind \in {"dev_t", "kdev_t", "Device"}
    /\ dout = NoOut
    /\ dback = NoDevice
    /\ \/ dkind = "dev_t" /\ dval \in DevTInputs /\ ddev = NoDevice /\ dpc = "input"
       \/ dkind = "kdev_t" /\ dval \in KdevTInputs /\ ddev = NoDevice /\ dpc = "input"
       \/ dkind = "Device" /\ dval = <<>> /\ ddev \in DeviceInputs /\ dpc = "decoded"

\* Device::from(val)
FromDevT ==
    \/ /\ dpc = "input" /\ dkind = "dev_t"
       /\ ddev' = DeviceFromDevT(dval)
       /\ dpc' = "decoded"
       /\ UNCHANGED <<hvars, dkind, dval, dout, dback>>
    \/ /\ dpc = "encoded" /\ dout.kind = "dev_t"
       /\ dback' = DeviceFromDevT(dout.res.val)
       /\ dpc' = "done"
       /\ UNCHANGED <<hvars, dkind, dval, ddev, dout>>

\* Device::from_kdev_t(val)
FromKdevT ==
    \/ /\ dpc = "input" /\ dkind = "kdev_t"
       /\ ddev' = from_kdev_t(dval)
       /\ dpc' = "decoded"
       /\ UNCHANGED <<hvars, dkind, dval, dout, dback>>
    \/ /\ dpc = "encoded" /\ dout.kind = "kdev_t" /\ dout.res.some
       /\ dback' = from_kdev_t(dout.res.val)
       /\ dpc' = "done"
       /\ UNCHANGED <<hvars, dkind, dval, ddev, dout>>

\* dev_t::from(dev)
IntoDevT ==
    /\ dpc = "decoded"
    /\ dout' = [kind |-> "dev_t", res |-> Some(DevTFromDevice(ddev))]
    /\ dpc' = "encoded"
    /\ UNCHANGED <<hvars, dkind, dval, ddev, dback>>

\* dev.to_kdev_t()
ToKdevT ==
    /\ dpc = "decoded"
    /\ dout' = [kind |-> "kdev_t", res |-> to_kdev_t(ddev)]
    /\ dpc' = "encoded"
    /\ UNCHANGED <<hvars, dkind, dval, ddev, dback>>

DevNext == FromDevT \/ FromKdevT \/ IntoDevT \/ ToKdevT

\* no conversion is run
DevIdle ==
    /\ dkind = "none" /\ dval = <<>> /\ ddev = NoDevice
    /\ dout = NoOut /\ dback = NoDevice /\ dpc = "idle"

----------------------------------------------------------------------------
(* loopbacked.rs: constants and the operating system *)

\* consts::SECTOR_SIZE, IEC::Mi, IEC::Gi
SECTOR_SIZE == 512

Mi == 1048576

Gi == 1073741824

\* Bytes(b).sectors()
BytesToSectors(b) == b \div SECTOR_SIZE

LoopIds == 0..(NumLoop - 1)

\* indexes of the backing files store<index>
FileIds == 0..(MaxCount - 1)

NoFile == -1

\* a loop device of the pool: bound to a file at an offset, or free
FreeLoop == [bound |-> FALSE, file |-> NoFile, offset |-> 0]

\* a loop device some other user of the pool has bound: initially the first
\* k devices of the pool, for any k
ForeignFile == -2

ForeignLoop == [bound |-> TRUE, file |-> ForeignFile, offset |-> 0]

\* the bytes [lo, hi) of a target written with zeros
Range(lo, hi) == [lo |-> lo, hi |-> hi]

NoRange == Range(0, 0)


Event(ev, dev, idx) == [ev |-> ev, dev |-> dev, idx |-> idx]

\* write_sectors(path, offset, length, buf): the zeroed bytes when the first n
\* calls of write_all succeed; the file position after the seek is *offset
WriteSectors(offset, length, n) ==
    LET start == offset
    IN  Range(start, start + n * SECTOR_SIZE)

\* wipe_sectors(path, offset, length)
WipeSectors(offset, length, n) == WriteSectors(offset, length, n)

\* sectors a loop device bound to a file of this size holds
Capacity(size) == size \div SECTOR_SIZE

\* how many calls of write_all succeed, of length: none, one, all but one, all
WriteCounts(length) == {0, 1, length - 1, length} \cap (0..length)

\* where LoopTestDev::new can fail
NewSteps == {"open", "next_free", "attach", "get_path", "wipe"}

\* an attach one sector into the file
AttachOffsetOneSector == SECTOR_SIZE

\* ld.attach(path, 0)
AttachOffset == 0

\* LoopTestDev::new(lc, path), path the backing file f: l is the device
\* next_free returns, fail the call that fails ("none": no call fails) and n
\* the calls of write_all that succeed.  Gives the outcome on the operating
\* system; the LoopTestDev exists iff fail = "none".
NewPossible(f, l, fail, n) ==
    /\ fail \in NewSteps \cup {"none"}
    /\ files[f] = NoFile => fail = "open"
    /\ ~loops[l].bound
    /\ n \in WriteCounts(BytesToSectors(Mi))
    /\ fail = "wipe" => n < BytesToSectors(Mi)
    /\ fail = "none" => n = BytesToSectors(Mi)
    /\ fail \in {"none", "wipe"} => n <= Capacity(files[f])

NewAttaches(fail) == fail \in {"none", "get_path", "wipe"}

\* LoopTestDev::new without the attach
NewLoopsNoAttach(f, l, fail) == loops

NewLoops(f, l, fail) ==
    IF NewAttaches(fail)
    THEN [loops EXCEPT ![l] = [bound |-> TRUE, file |-> f, offset |-> AttachOffset]]
    ELSE loops

NewWiped(l, fail, n) ==
    IF NewAttaches(fail)
    THEN [wiped EXCEPT ![l] =
            IF fail = "get_path" THEN NoRange
            ELSE WipeSectors(0, BytesToSectors(Mi), n)]
    ELSE wiped

NewLog(f, l, fail) ==
    IF NewAttaches(fail)
    THEN log \o <<Event("attach", l, f)>>
             \o (IF fail = "none" THEN <<Event("wipe", l, f)>> ELSE <<>>)
    ELSE log

\* self.ld.detach(): LOOP_CLR_FD unbinds a bound device and fails on a free one
DetachOk(l) == loops[l].bound

DetachLoops(l) == IF DetachOk(l) THEN [loops EXCEPT ![l] = FreeLoop] ELSE loops

DetachWiped(l) == IF DetachOk(l) THEN [wiped EXCEPT ![l] = NoRange] ELSE wiped

DetachLog(l) ==
    log \o <<Event(IF DetachOk(l) THEN "detach" ELSE "detach_fault", l, loops[l].file)>>

----------------------------------------------------------------------------
(* loopbacked.rs: test_with_spec and get_devices *)

\* the order of the drops had loop_devices been declared before tmpdir
ScopeExitSwapped == <<"drop_tmpdir", "drop_devices">>

\* test_with_spec declares tmpdir and then loop_devices: at the end of the
\* scope the locals are dropped in the reverse order
ScopeExit == <<"drop_devices", "drop_tmpdir">>

\* the position after the drop at position p
AfterDrop(p) ==
    IF p = ScopeExit[1] THEN ScopeExit[2]
    ELSE IF panicking THEN "panicked" ELSE "done"

\* a panic in get_devices or test_with_spec: the stack unwinds, dropping
\* the locals
Unwind ==
    /\ panicking' = TRUE
    /\ pc' = ScopeExit[1]

\* a loop that stops one pass early
MoreDevicesButOne(i) == i < count - 1

\* for index in 0..count: there is a pass for the index i
MoreDevices(i) == i < count

\* a push at the front of the vector
PushFront(v, x) == <<x>> \o v

\* loop_devices.push(ltd)
Push(v, x) == Append(v, x)

\* let tmpdir = TempDir::new("devicemapper").unwrap()
MkTmpdir ==
    /\ mode = "harness" /\ pc = "start"
    /\ \E ok \in BOOLEAN :
         IF ok
         THEN /\ tmpdir' = "exists"
              /\ pc' = "open_lc"
              /\ UNCHANGED panicking
         ELSE /\ pc' = "panicked"
              /\ panicking' = TRUE
              /\ UNCHANGED tmpdir
    /\ UNCHANGED dvars
    /\ UNCHANGED <<mode, count, index, files, loops, wiped, loop_devices,
                   device_paths, tests, testArg, log, ltd, wcall, dn>>

\* let lc = LoopControl::open().unwrap(); let mut loop_devices = Vec::new()
OpenLoopControl ==
    /\ mode = "harness" /\ pc = "open_lc"
    /\ \E ok \in BOOLEAN :
         IF ok
         THEN /\ pc' = IF MoreDevices(0) THEN "create" ELSE "paths"
              /\ UNCHANGED panicking
         ELSE Unwind
    /\ index' = 0
    /\ loop_devices' = <<>>
    /\ UNCHANGED dvars
    /\ UNCHANGED <<mode, count, tmpdir, files, loops, wiped,
                   device_paths, tests, testArg, log, ltd, wcall, dn>>

\* where the creation of a backing file can fail
CreateSteps == {"open", "seek", "write", "flush"}

\* the size of the file after open(create), seek(Start(IEC::Gi)), write(&[0])
\* and flush, when the call fail fails
CreatedSize(old, fail) ==
    LET opened == IF old = NoFile THEN 0 ELSE old
        pos == Gi
        written == IF pos + 1 > opened THEN pos + 1 ELSE opened
    IN  CASE fail = "open" -> old
          [] fail \in {"seek", "write"} -> opened
          [] OTHER -> written

\* get_devices, one pass of the loop, up to the flush of the backing file
CreateBackingFile ==
    /\ mode = "harness" /\ pc = "create"
    /\ \E fail \in CreateSteps \cup {"none"} :
         /\ files' = [files EXCEPT ![index] = CreatedSize(files[index], fail)]
         /\ log' = IF fail = "open" THEN log
                   ELSE log \o <<Event("create", NoFile, index)>>
         /\ IF fail = "none"
            THEN pc' = "new" /\ UNCHANGED panicking
            ELSE Unwind
    /\ UNCHANGED dvars
    /\ UNCHANGED <<mode, count, index, tmpdir, loops, wiped, loop_devices,
                   device_paths, tests, testArg, ltd, wcall, dn>>

\* get_devices, the rest of the pass: LoopTestDev::new(&lc, &path) and
\* loop_devices.push(ltd)
NewLoopTestDev ==
    /\ mode = "harness" /\ pc = "new"
    /\ \/ \E l \in LoopIds, fail \in NewSteps \cup {"none"},
             n \in WriteCounts(BytesToSectors(Mi)) :
            /\ NewPossible(index, l, fail, n)
            /\ loops' = NewLoops(index, l, fail)
            /\ wiped' = NewWiped(l, fail, n)
            /\ log' = NewLog(index, l, fail)
            /\ IF fail = "none"
               THEN /\ loop_devices' = Push(loop_devices, l)
                    /\ index' = index + 1
                    /\ pc' = IF MoreDevices(index + 1) THEN "create" ELSE "paths"
                    /\ UNCHANGED panicking
               ELSE /\ Unwind
                    /\ UNCHANGED <<loop_devices, index>>
       \/ \* no loop device is free: next_free fails
          /\ \A l \in LoopIds : loops[l].bound
          /\ Unwind
          /\ UNCHANGED <<loops, wiped, log, loop_devices, index>>
    /\ UNCHANGED dvars
    /\ UNCHANGED <<mode, count, tmpdir, files, device_paths, tests, testArg,
                   ltd, wcall, dn>>

\* let device_paths = loop_devices.iter().map(|x| x.get_path()).collect()
CollectPaths ==
    /\ mode = "harness" /\ pc = "paths"
    /\ \E ok \in BOOLEAN :
         IF ok
         THEN /\ device_paths' = loop_devices
              /\ pc' = "test"
              /\ UNCHANGED panicking
         ELSE /\ Len(loop_devices) > 0
              /\ Unwind
              /\ UNCHANGED device_paths
    /\ UNCHANGED dvars
    /\ UNCHANGED <<mode, count, index, tmpdir, files, loops, wiped,
                   loop_devices, tests, testArg, log, ltd, wcall, dn>>

\* test(&device_paths): the body returns or panics
RunTest ==
    /\ mode = "harness" /\ pc = "test"
    /\ tests' = tests + 1
    /\ testArg' = device_paths
    /\ log' = log \o <<Event("test", NoFile, NoFile)>>
    /\ \E fault \in BOOLEAN :
         /\ panicking' = fault
         /\ pc' = ScopeExit[1]
    /\ UNCHANGED dvars
    /\ UNCHANGED <<mode, count, index, tmpdir, files, loops, wiped,
                   loop_devices, device_paths, ltd, wcall, dn>>

\* a drop of the first LoopTestDev that does not detach it
DropFirstForget ==
    /\ loop_devices' = Tail(loop_devices)
    /\ UNCHANGED <<loops, wiped, log, pc, panicking>>

\* the state after the first LoopTestDev of loop_devices is dropped:
\* Drop::drop calls self.detach(); a panic while panicking aborts the process
DropFirst ==
    LET l == Head(loop_devices)
    IN  /\ loops' = DetachLoops(l)
        /\ wiped' = DetachWiped(l)
        /\ log' = DetachLog(l)
        /\ loop_devices' = Tail(loop_devices)
        /\ IF DetachOk(l)
           THEN UNCHANGED <<pc, panicking>>
           ELSE IF panicking
                THEN pc' = "aborted" /\ UNCHANGED panicking
                ELSE panicking' = TRUE /\ UNCHANGED pc

\* loop_devices goes out of scope: its elements are dropped in order
DropDevices ==
    /\ mode = "harness" /\ pc = "drop_devices"
    /\ IF Len(loop_devices) > 0
       THEN DropFirst
       ELSE /\ pc' = AfterDrop("drop_devices")
            /\ UNCHANGED <<loops, wiped, log, loop_devices, panicking>>
    /\ UNCHANGED dvars
    /\ UNCHANGED <<mode, count, index, tmpdir, files,
                   device_paths, tests, testArg, ltd, wcall, dn>>

\* tmpdir goes out of scope: the directory and the files in it are removed
DropTmpdir ==
    /\ mode = "harness" /\ pc = "drop_tmpdir"
    /\ tmpdir' = "removed"
    /\ files' = [f \in FileIds |-> NoFile]
    /\ log' = log \o <<Event("rmdir", NoFile, NoFile)>>
    /\ pc' = AfterDrop("drop_tmpdir")
    /\ UNCHANGED dvars
    /\ UNCHANGED <<mode, count, index, loops, wiped, loop_devices,
                   device_paths, panicking, tests, testArg, ltd, wcall, dn>>

HarnessNext ==
    \/ MkTmpdir
    \/ OpenLoopControl
    \/ CreateBackingFile
    \/ NewLoopTestDev
    \/ CollectPaths
    \/ RunTest
    \/ DropDevices
    \/ DropTmpdir

----------------------------------------------------------------------------
(* loopbacked.rs: a client of LoopTestDev::new, detach and Drop *)

DevIds == 1..MaxDevs

NoLoop == -1

\* a LoopTestDev of the client: st is "none" (not constructed), "live" or
\* "dropped"; ld its loop device; file the path it was constructed with;
\* calls the invocations of detach on it, unbinds those that unbound a device,
\* fault whether one of them panicked; hit whether detach was invoked, on it
\* or on another LoopTestDev, for its loop device since it was constructed
NoLtd == [st |-> "none", ld |-> NoLoop, file |-> NoFile, calls |-> 0, unbinds |-> 0,
          fault |-> FALSE, hit |-> FALSE]

\* d.detach() on the LoopTestDev v: self.ld.detach().unwrap()
Detached(v) ==
    [v EXCEPT !.calls = v.calls + 1,
              !.unbinds = v.unbinds + (IF DetachOk(v.ld) THEN 1 ELSE 0),
              !.fault = v.fault \/ ~DetachOk(v.ld)]

\* the LoopTestDev values after detach is invoked on the value d
AfterDetach(d) ==
    [e \in DevIds |->
       IF e = d THEN [Detached(ltd[d]) EXCEPT !.hit = TRUE]
       ELSE IF ltd[e].st = "live" /\ ltd[e].ld = ltd[d].ld THEN [ltd[e] EXCEPT !.hit = TRUE]
       ELSE ltd[e]]

\* let d = LoopTestDev::new(&lc, path)
ApiNew ==
    /\ mode = "api" /\ pc = "api" /\ ~panicking
    /\ \E d \in DevIds, f \in FileIds :
         /\ ltd[d].st = "none"
         /\ \A e \in DevIds : e < d => ltd[e].st # "none"
         /\ \/ \E l \in LoopIds, fail \in NewSteps \cup {"none"},
                  n \in WriteCounts(BytesToSectors(Mi)) :
                 /\ NewPossible(f, l, fail, n)
                 /\ loops' = NewLoops(f, l, fail)
                 /\ wiped' = NewWiped(l, fail, n)
                 /\ IF fail = "none"
                    THEN /\ ltd' = [ltd EXCEPT ![d] = [NoLtd EXCEPT !.st = "live", !.ld = l, !.file = f]]
                         /\ UNCHANGED panicking
                    ELSE /\ panicking' = TRUE
                         /\ UNCHANGED ltd
            \/ /\ \A l \in LoopIds : loops[l].bound
               /\ panicking' = TRUE
               /\ UNCHANGED <<loops, wiped, ltd>>
    /\ UNCHANGED dvars
    /\ UNCHANGED <<mode, pc, count, index, tmpdir, files, loop_devices,
                   device_paths, tests, testArg, log, wcall, dn>>

\* d.detach()
ApiDetach ==
    /\ mode = "api" /\ pc = "api" /\ ~panicking
    /\ \E d \in DevIds :
         /\ ltd[d].st = "live"
         /\ ltd' = AfterDetach(d)
         /\ loops' = DetachLoops(ltd[d].ld)
         /\ wiped' = DetachWiped(ltd[d].ld)
         /\ panicking' = ~DetachOk(ltd[d].ld)
    /\ UNCHANGED dvars
    /\ UNCHANGED <<mode, pc, count, index, tmpdir, files, loop_devices,
                   device_paths, tests, testArg, log, wcall, dn>>

\* d goes out of scope, at the end of its block or while a panic unwinds:
\* Drop::drop calls self.detach(); a panic while panicking aborts the process
ApiDrop ==
    /\ mode = "api" /\ pc = "api"
    /\ \E d \in DevIds :
         /\ ltd[d].st = "live"
         /\ ltd' = [AfterDetach(d) EXCEPT ![d].st = "dropped"]
         /\ loops' = DetachLoops(ltd[d].ld)
         /\ wiped' = DetachWiped(ltd[d].ld)
         /\ panicking' = (panicking \/ ~DetachOk(ltd[d].ld))
         /\ pc' = IF panicking /\ ~DetachOk(ltd[d].ld) THEN "aborted" ELSE pc
    /\ UNCHANGED dvars
    /\ UNCHANGED <<mode, count, index, tmpdir, files, loop_devices,
                   device_paths, tests, testArg, log, wcall, dn>>

ApiNext == ApiNew \/ ApiDetach \/ ApiDrop

----------------------------------------------------------------------------
(* loopbacked.rs: a call of wipe_sectors *)

\* where write_sectors can fail
WriteSteps == {"open", "seek", "write", "flush"}

NoCall == [offset |-> 0, length |-> 0, done |-> FALSE, ok |-> FALSE, range |-> NoRange]

\* wipe_sectors(path, Sectors(offset), Sectors(length))
CallWipeSectors ==
    /\ mode = "wipe" /\ pc = "wipe" /\ ~wcall.done
    /\ \E fail \in WriteSteps \cup {"none"}, n \in WriteCounts(wcall.length) :
         /\ fail = "write" => n < wcall.length
         /\ fail \in {"none", "flush"} => n = wcall.length
         /\ fail \in {"open", "seek"} => n = 0
         /\ wcall' = [wcall EXCEPT
                        !.done = TRUE,
                        !.ok = (fail = "none"),
                        !.range = IF fail \in {"open", "seek"} THEN NoRange
                                  ELSE WipeSectors(wcall.offset, wcall.length, n)]
    /\ UNCHANGED dvars
    /\ UNCHANGED <<mode, pc, count, index, tmpdir, files, loops, wiped, loop_devices,
                   device_paths, panicking, tests, testArg, log, ltd, dn>>

----------------------------------------------------------------------------
(* loopbacked.rs: a call of devnode_to_devno *)

\* nix::sys::stat::S_IFMT and S_IFBLK
S_IFMT == 61440

S_IFBLK == 24576

\* the file type bits of st_mode for each kind of node
TypeBits ==
    [fifo |-> 4096, chr |-> 8192, dir |-> 16384, blk |-> 24576, reg |-> 32768,
     sock |-> 49152]

NodeKinds == DOMAIN TypeBits

\* permission bits of st_mode: none, rw-rw----, all with setuid, setgid, sticky
PermSamples == {0, 432, 4095}

RECURSIVE BitAnd(_, _)
\* a & b on unsigned integers
BitAnd(a, b) ==
    IF a = 0 \/ b = 0 THEN 0
    ELSE (a % 2) * (b % 2) + 2 * BitAnd(a \div 2, b \div 2)

\* a test of any bit of S_IFBLK
IsBlkAnyBit(st_mode) == BitAnd(st_mode, S_IFBLK) # 0

\* metadata.st_mode() & S_IFMT.bits() == S_IFBLK.bits()
IsBlk(st_mode) == BitAnd(st_mode, S_IFMT) = S_IFBLK

\* the node at the path: kind "missing" when path.metadata() fails
NoNode == [kind |-> "missing", perm |-> 0, rdev |-> Zero(W64)]

Nodes ==
    {NoNode} \cup
    {[kind |-> k, perm |-> p, rdev |-> r] :
        k \in NodeKinds, p \in PermSamples, r \in {Zero(W64), test_devt_1}}

NoDevno == [node |-> NoNode, done |-> FALSE, fault |-> FALSE, res |-> None]

\* devnode_to_devno(path)
DevnodeToDevno ==
    /\ mode = "devno" /\ pc = "devno" /\ ~dn.done
    /\ dn' = IF dn.node.kind = "missing"
             THEN [dn EXCEPT !.done = TRUE, !.fault = TRUE]
             ELSE [dn EXCEPT
                     !.done = TRUE,
                     !.res = IF IsBlk(TypeBits[dn.node.kind] + dn.node.perm)
                             THEN Some(dn.node.rdev) ELSE None]
    /\ UNCHANGED dvars
    /\ UNCHANGED <<mode, pc, count, index, tmpdir, files, loops, wiped, loop_devices,
                   device_paths, panicking, tests, testArg, log, ltd, wcall>>

----------------------------------------------------------------------------
(* The specifications *)

\* the files a client of the API passes to LoopTestDev::new: the first k
\* paths are files of one sector or of 1 GiB, at the others there is none
ClientSizes == {SECTOR_SIZE, Gi}

ClientFiles ==
    {[f \in FileIds |-> IF f < k THEN size ELSE NoFile] :
        k \in 0..MaxCount, size \in ClientSizes}

Init ==
    /\ mode \in {"harness", "api", "wipe", "devno"}
    /\ pc = IF mode = "harness" THEN "start" ELSE mode
    /\ count \in IF mode = "harness" THEN 0..MaxCount ELSE {0}
    /\ index = 0
    /\ tmpdir = "none"
    /\ files \in IF mode = "api" THEN ClientFiles ELSE {[f \in FileIds |-> NoFile]}
    /\ loops \in IF mode \in {"wipe", "devno"} THEN {[l \in LoopIds |-> FreeLoop]}
                 ELSE {[l \in LoopIds |-> IF l < k THEN ForeignLoop ELSE FreeLoop] :
                         k \in 0..NumLoop}
    /\ wiped = [l \in LoopIds |-> NoRange]
    /\ loop_devices = <<>>
    /\ device_paths = <<>>
    /\ panicking = FALSE
    /\ tests = 0
    /\ testArg = <<>>
    /\ log = <<>>
    /\ ltd = [d \in DevIds |-> NoLtd]
    /\ wcall \in IF mode = "wipe"
                 THEN {[NoCall EXCEPT !.offset = o, !.length = n] :
                         o \in 0..MaxSectors, n \in 0..MaxSectors}
                 ELSE {NoCall}
    /\ dn \in IF mode = "devno" THEN {[NoDevno EXCEPT !.node = nd] : nd \in Nodes}
              ELSE {NoDevno}
    /\ DevIdle

Next == HarnessNext \/ ApiNext \/ CallWipeSectors \/ DevnodeToDevno

Spec == Init /\ [][Next]_vars

\* no program of loopbacked.rs is run
HarnessIdle ==
    /\ mode = "none" /\ pc = "idle" /\ count = 0 /\ index = 0 /\ tmpdir = "none"
    /\ files = [f \in FileIds |-> NoFile]
    /\ loops = [l \in LoopIds |-> FreeLoop]
    /\ wiped = [l \in LoopIds |-> NoRange]
    /\ loop_devices = <<>> /\ device_paths = <<>> /\ panicking = FALSE
    /\ tests = 0 /\ testArg = <<>> /\ log = <<>>
    /\ ltd = [d \in DevIds |-> NoLtd]
    /\ wcall = NoCall
    /\ dn = NoDevno

InitDev == DevInit /\ HarnessIdle

SpecDev == InitDev /\ [][DevNext]_vars

----------------------------------------------------------------------------
(* Properties *)

\* the loop devices this run attached
AttachedLoops == {log[i].dev : i \in {j \in DOMAIN log : log[j].ev = "attach"}}

\* test_with_spec has ended after it invoked the test body
EndedAfterTest == mode = "harness" /\ pc \in {"done", "panicked"} /\ tests > 0

\* C1: after test_with_spec ends, the test body having returned or panicked,
\* no loop device attached during its provisioning is still attached.
C1_NoLoopLeftAttached ==
    EndedAfterTest => \A l \in AttachedLoops : ~loops[l].bound

\* test_with_spec ended with a panic of the test body on two devices
C1_Witness ==
    /\ EndedAfterTest /\ pc = "panicked"
    /\ Cardinality(AttachedLoops) = 2
    /\ \A l \in AttachedLoops : ~loops[l].bound

\* the failure of get_devices has reached its caller: the stack has unwound
\* past get_devices before the test body was ever invoked
ProvisioningFailed ==
    mode = "harness" /\ panicking /\ tests = 0 /\ pc \in {"drop_tmpdir", "panicked"}

\* C2: when a step of provisioning fails, every loop device this call of
\* get_devices attached is detached before the failure reaches the caller.
C2_FailedProvisioningDetachesAll ==
    ProvisioningFailed => \A l \in AttachedLoops : ~loops[l].bound

\* C3: detach on a LoopTestDev already detached is a no-op and no fault: a
\* LoopTestDev detached explicitly and then dropped unbinds its loop device
\* once and no invocation panics.
C3_DetachIdempotent ==
    \A d \in DevIds :
        (mode = "api" /\ ltd[d].calls >= 1) => (ltd[d].unbinds = 1 /\ ~ltd[d].fault)

\* C4: a dev_t converted to a Device and back is the dev_t.
C4_DevTRoundTrip ==
    (dkind = "dev_t" /\ dpc = "encoded" /\ dout.kind = "dev_t") => dout.res = Some(dval)

\* the dev_t of the test, 0xabcdef1234567890, has been converted there and back
C4_Witness ==
    /\ dkind = "dev_t" /\ dpc = "encoded" /\ dout.kind = "dev_t"
    /\ dval = test_devt_1 /\ dout.res = Some(dval)

\* C5: Device::from_kdev_t(v).to_kdev_t() is Some(v).
C5_KdevTRoundTrip ==
    (dkind = "kdev_t" /\ dpc = "encoded" /\ dout.kind = "kdev_t") => dout.res = Some(dval)

\* a kdev_t with bits 28-31 set has been converted there and back
C5_Witness ==
    /\ dkind = "kdev_t" /\ dpc = "encoded" /\ dout.kind = "kdev_t"
    /\ dval[7] # 0 /\ dout.res = Some(dval)

\* the word w has a nibble set at position k or above: w > 16^k - 1
Exceeds(w, k) == \E i \in DOMAIN w : i >= k /\ w[i] # 0

\* C6: to_kdev_t is None exactly when major > 0xFFF or minor > 0xFFFFF, and
\* else Some of a u32.
C6_ToKdevTBoundary ==
    (dpc = "encoded" /\ dout.kind = "kdev_t") =>
        /\ dout.res.some = ~(Exceeds(ddev.major, 3) \/ Exceeds(ddev.minor, 5))
        /\ dout.res.some => DOMAIN dout.res.val = 0..(W32 - 1)

\* to_kdev_t was Some at major = 0xFFF, minor = 0xFFFFF
C6_Witness ==
    /\ dpc = "encoded" /\ dout.kind = "kdev_t" /\ dout.res.some
    /\ ddev = Device(Hex(W32, <<15, 15, 15>>), Hex(W32, <<15, 15, 15, 15, 15>>))

\* C7: in the teardown of test_with_spec, the test body having returned or
\* panicked, every loop device is detached before the temporary directory is
\* removed.
C7_DetachBeforeRmdir ==
    (mode = "harness" /\ tests > 0) =>
        \A i \in DOMAIN log :
            log[i].ev = "rmdir" =>
                \A l \in AttachedLoops :
                    \E j \in 1..(i - 1) : log[j].ev = "detach" /\ log[j].dev = l

\* the directory was removed after a panic of the test body on two devices
C7_Witness ==
    /\ mode = "harness" /\ tests > 0 /\ panicking /\ tmpdir = "removed"
    /\ Cardinality(AttachedLoops) = 2

\* the loop device l is attached at offset 0 to the file f and exactly its
\* first MiB was zeroed since the attach
AttachedAndWiped(l, f) ==
    /\ loops[l] = [bound |-> TRUE, file |-> f, offset |-> 0]
    /\ wiped[l] = Range(0, 2048 * 512)

\* the file of the loop device when it was last attached
AttachedFile(l) ==
    LET at == {j \in DOMAIN log : log[j].ev = "attach" /\ log[j].dev = l}
    IN  log[CHOOSE j \in at : \A k \in at : k <= j].idx

\* every LoopTestDev of test_with_spec, and every path given to the test body
HarnessDevsAttachedAndWiped ==
    /\ \A i \in DOMAIN loop_devices :
         AttachedAndWiped(loop_devices[i], AttachedFile(loop_devices[i]))
    /\ pc = "test" =>
         \A i \in DOMAIN device_paths :
             AttachedAndWiped(device_paths[i], AttachedFile(device_paths[i]))

\* C8 as stated: every LoopTestDev that exists is attached at offset 0 to its
\* backing file with exactly its first MiB zeroed after the attach.
C8_EveryLoopTestDevAttached ==
    /\ mode = "harness" => HarnessDevsAttachedAndWiped
    /\ \A d \in DevIds :
         (mode = "api" /\ ltd[d].st = "live") => AttachedAndWiped(ltd[d].ld, ltd[d].file)

\* C8, amended: every LoopTestDev, from its construction until detach is
\* invoked for its loop device, and so every path given to the test body, is
\* attached at offset 0 to its backing file with exactly its first MiB zeroed
\* after the attach.
C8_AttachedUntilDetach ==
    /\ mode = "harness" => HarnessDevsAttachedAndWiped
    /\ \A d \in DevIds :
         (mode = "api" /\ ltd[d].st = "live" /\ ~ltd[d].hit) =>
             AttachedAndWiped(ltd[d].ld, ltd[d].file)

\* a LoopTestDev is attached and wiped while another was detached
C8_Witness ==
    /\ mode = "api"
    /\ \E d, e \in DevIds :
         /\ ltd[d].st = "live" /\ ~ltd[d].hit
         /\ AttachedAndWiped(ltd[d].ld, ltd[d].file)
         /\ ltd[e].calls >= 1

\* the bytes of a range, as a set: empty ranges are equal
SameBytes(r, q) == (r.lo >= r.hi /\ q.lo >= q.hi) \/ r = q

\* C9: wipe_sectors(path, offset, length) zeroes exactly the bytes
\* [offset * SECTOR_SIZE, (offset + length) * SECTOR_SIZE).
C9_WipeSectorsRange ==
    (mode = "wipe" /\ wcall.done /\ wcall.ok) =>
        SameBytes(wcall.range,
                  Range(wcall.offset * 512, (wcall.offset + wcall.length) * 512))

\* C10: after provisioning every backing file store<index> is exactly 1 GiB.
C10_BackingFileOneGiB ==
    (mode = "harness" /\ pc \in {"paths", "test"}) =>
        \A i \in 0..(count - 1) : files[i] = 1024 * 1024 * 1024

\* the positions of the log before p with the event ev
Before(p, ev) == {q \in 1..(p - 1) : log[q].ev = ev}

\* C11: get_devices binds the devices in index order 0..count, the wipe of
\* device i completes before the backing file of device i+1 is created, and
\* position i of the returned vector, and of the paths given to the test
\* body, is backed by store<i>.
C11_IndexOrder ==
    mode = "harness" =>
        /\ \A p \in DOMAIN log :
             /\ log[p].ev = "attach" => log[p].idx = Cardinality(Before(p, "attach"))
             /\ (log[p].ev = "create" /\ log[p].idx > 0) =>
                    \E q \in Before(p, "wipe") : log[q].idx = log[p].idx - 1
        /\ pc \in {"paths", "test"} =>
             \A i \in DOMAIN loop_devices : loops[loop_devices[i]].file = i - 1
        /\ pc = "test" =>
             \A i \in DOMAIN device_paths : loops[device_paths[i]].file = i - 1
        /\ \A i \in DOMAIN testArg : AttachedFile(testArg[i]) = i - 1

\* the test body was given the paths of two devices
C11_Witness ==
    /\ mode = "harness" /\ tests = 1 /\ Len(testArg) = 2
    /\ \A i \in DOMAIN testArg : AttachedFile(testArg[i]) = i - 1
    /\ \E p \in DOMAIN log : log[p].ev = "create" /\ log[p].idx = 1

\* the positions of the log where an event of evs happened on the loop device l
On(l, evs) == {p \in DOMAIN log : log[p].ev \in evs /\ log[p].dev = l}

\* the loop devices for which LoopTestDev::new returned a LoopTestDev
Constructed == {log[p].dev : p \in {q \in DOMAIN log : log[q].ev = "wipe"}}

\* C12: within test_with_spec a LoopTestDev goes Unbound -> Attached ->
\* Detached and stays there: a device is detached only while attached, it is
\* not attached again, and when test_with_spec has ended detach was invoked
\* exactly once on every LoopTestDev, after the provisioning and the test.
C12_Lifecycle ==
    mode = "harness" =>
        /\ \A p \in DOMAIN log :
             /\ log[p].ev # "detach_fault"
             /\ log[p].ev = "detach" =>
                  /\ log[p].dev \in Constructed
                  /\ \E q \in On(log[p].dev, {"attach"}) : q < p
                  /\ \A q \in DOMAIN log :
                       q > p => log[q].ev \notin {"create", "attach", "wipe", "test"}
        /\ pc \in {"done", "panicked"} =>
             \A l \in Constructed : Cardinality(On(l, {"detach", "detach_fault"})) = 1

\* provisioning failed after a LoopTestDev was constructed, and test_with_spec
\* has ended with that one detached
C12_Witness ==
    /\ mode = "harness" /\ pc = "panicked" /\ tests = 0
    /\ Cardinality(Constructed) = 1
    /\ \A l \in Constructed : Cardinality(On(l, {"detach"})) = 1

\* what the claim gives for the node: the raw device number of a block
\* device, None for any other
DevnoOf(node) == IF node.kind = "blk" THEN Some(node.rdev) ELSE None

\* C13 as stated: devnode_to_devno returns the raw device number of a block
\* device and None for every other path, and raises no fault.
C13_DevnoNeverFaults ==
    (mode = "devno" /\ dn.done) => (~dn.fault /\ dn.res = DevnoOf(dn.node))

\* C13, amended: devnode_to_devno returns the raw device number of a block
\* device and None for every other path whose metadata can be read; it
\* panics exactly when the metadata cannot be read.
C13_DevnoUnlessNoMetadata ==
    (mode = "devno" /\ dn.done) =>
        /\ dn.fault = (dn.node.kind = "missing")
        /\ ~dn.fault => dn.res = DevnoOf(dn.node)

\* a block device with permission bits set gave its device number
C13_Witness ==
    /\ mode = "devno" /\ dn.done /\ ~dn.fault
    /\ dn.node.kind = "blk" /\ dn.node.perm # 0 /\ dn.node.rdev = test_devt_1
    /\ dn.res = Some(test_devt_1)

\* hex digit i of the word v, 0 at and above v's width
Digit(v, i) == IF i \in DOMAIN v THEN v[i] ELSE 0

\* the u32 whose hex digits 0..(k - 1) are those of lo and whose digits from
\* k up are the digits of v from position from up
Spliced(lo, k, v, from, top) ==
    [i \in 0..7 |-> IF i < k THEN lo[i]
                    ELSE IF from + (i - k) <= top THEN Digit(v, from + (i - k)) ELSE 0]

\* C14: from_kdev_t(v) has major = bits 8-19 of v and
\* minor = (v & 0xff) | ((v >> 20) << 8); 0x12345678 gives 0x456 and 0x12378.
C14_FromKdevTLayout ==
    (dkind = "kdev_t" /\ dpc # "input") =>
        /\ ddev.major = [i \in 0..7 |-> IF i <= 2 THEN dval[i + 2] ELSE 0]
        /\ ddev.minor = Spliced(dval, 2, dval, 5, 7)
        /\ dval = <<8, 7, 6, 5, 4, 3, 2, 1>> =>
             /\ ddev.major = <<6, 5, 4, 0, 0, 0, 0, 0>>
             /\ ddev.minor = <<8, 7, 3, 2, 1, 0, 0, 0>>

\* the kdev_t of the test, 0x12345678, was decoded to 0x456 and 0x12378
C14_Witness ==
    /\ dkind = "kdev_t" /\ dpc = "decoded" /\ dval = Hex(8, <<1, 2, 3, 4, 5, 6, 7, 8>>)
    /\ ddev = Device(Hex(8, <<4, 5, 6>>), Hex(8, <<1, 2, 3, 7, 8>>))

\* C15: Device::from(v) has major = bits 44-63 of v above bits 8-19 and
\* minor = bits 20-43 of v above bits 0-7; 0xabcdef1234567890 gives
\* 0xabcde678 and 0xf1234590.
C15_FromDevTLayout ==
    (dkind = "dev_t" /\ dpc # "input") =>
        /\ ddev.major = [i \in 0..7 |-> IF i <= 2 THEN dval[i + 2] ELSE dval[i + 8]]
        /\ ddev.minor = [i \in 0..7 |-> IF i <= 1 THEN dval[i] ELSE dval[i + 3]]
        /\ dval = Hex(16, <<10, 11, 12, 13, 14, 15, 1, 2, 3, 4, 5, 6, 7, 8, 9, 0>>) =>
             /\ ddev.major = Hex(8, <<10, 11, 12, 13, 14, 6, 7, 8>>)
             /\ ddev.minor = Hex(8, <<15, 1, 2, 3, 4, 5, 9, 0>>)

\* the dev_t of the test was decoded to 0xabcde678 and 0xf1234590
C15_Witness ==
    /\ dkind = "dev_t" /\ dpc = "decoded"
    /\ dval = Hex(16, <<10, 11, 12, 13, 14, 15, 1, 2, 3, 4, 5, 6, 7, 8, 9, 0>>)
    /\ ddev = Device(Hex(8, <<10, 11, 12, 13, 14, 6, 7, 8>>),
                     Hex(8, <<15, 1, 2, 3, 4, 5, 9, 0>>))

\* C16: every Device converts to a dev_t, and the dev_t decodes to the Device.
C16_DeviceRoundTrip ==
    /\ (dpc = "encoded" /\ dout.kind = "dev_t") =>
           (dout.res.some /\ DOMAIN dout.res.val = 0..15)
    /\ (dpc = "done" /\ dout.kind = "dev_t") => dback = ddev

\* a Device with the top digit of major and of minor set came back
C16_Witness ==
    /\ dkind = "Device" /\ dpc = "done" /\ dout.kind = "dev_t"
    /\ ddev.major[7] # 0 /\ ddev.minor[7] # 0 /\ dback = ddev

\* major <= 0xFFF and minor <= 0xFFFFF
Representable(dev) == ~Exceeds(dev.major, 3) /\ ~Exceeds(dev.minor, 5)

\* C17: for a Device with major <= 0xFFF and minor <= 0xFFFFF, to_kdev_t is
\* Some(k) and from_kdev_t(k) is the Device.
C17_ToKdevTInverse ==
    (dout.kind = "kdev_t" /\ Representable(ddev)) =>
        /\ dout.res.some
        /\ dpc = "done" => dback = ddev

\* the Device of major 0xFFF and minor 0xFFFFF came back
C17_Witness ==
    /\ dkind = "Device" /\ dpc = "done" /\ dout.kind = "kdev_t"
    /\ ddev = Device(Hex(8, <<15, 15, 15>>), Hex(8, <<15, 15, 15, 15, 15>>))
    /\ dback = ddev

\* no two positions of the vector hold the same loop device
Distinct(v) == \A i, j \in DOMAIN v : i # j => v[i] # v[j]

\* C18: with no other user of the loop-device pool, provisioning count
\* devices yields count pairwise distinct loop devices, all attached at the
\* same time; a device is attached before the next free one is requested, so
\* no two attaches of a provisioning claim the same device.
C18_DistinctAttachedPaths ==
    mode = "harness" =>
        /\ (pc \in {"create", "new", "paths", "test"}) =>
             /\ Distinct(loop_devices)
             /\ \A i \in DOMAIN loop_devices : loops[loop_devices[i]].bound
             /\ \A p, q \in DOMAIN log :
                  (p # q /\ log[p].ev = "attach" /\ log[q].ev = "attach")
                      => log[p].dev # log[q].dev
        /\ (pc \in {"paths", "test"}) => Len(loop_devices) = count
        /\ pc = "test" =>
             /\ Len(device_paths) = count /\ Distinct(device_paths)
             /\ \A i \in DOMAIN device_paths : loops[device_paths[i]].bound

\* two devices were provisioned: two distinct loop devices, both attached
C18_Witness ==
    /\ mode = "harness" /\ pc = "test" /\ count = 2
    /\ Len(device_paths) = 2 /\ device_paths[1] # device_paths[2]
    /\ loops[device_paths[1]].bound /\ loops[device_paths[2]].bound

\* the positions of the log where the test body was invoked
TestCalls == {p \in DOMAIN log : log[p].ev = "test"}

\* C19: test_with_spec invokes the test body at most once, after all count
\* devices have been created, attached and wiped, with exactly count paths;
\* if provisioning fails for a device the body is never invoked.
C19_TestBodyOnceAfterProvisioning ==
    mode = "harness" =>
        /\ tests <= 1 /\ tests = Cardinality(TestCalls)
        /\ \A p \in TestCalls :
             /\ \A i \in 0..(count - 1) :
                  \A ev \in {"create", "attach", "wipe"} :
                      \E q \in Before(p, ev) : log[q].idx = i
             /\ tests > 0 => Len(testArg) = count
        /\ (\E i \in 0..(count - 1) :
               \A q \in DOMAIN log : ~(log[q].ev = "wipe" /\ log[q].idx = i))
               => tests = 0
        /\ (panicking /\ pc \in {"drop_devices", "drop_tmpdir", "panicked"}
                      /\ TestCalls = {}) => tests = 0

\* the test body ran once, on the paths of two devices
C19_Witness ==
    /\ mode = "harness" /\ tests = 1 /\ count = 2 /\ Len(testArg) = 2
    /\ Cardinality(TestCalls) = 1

====
